---- MODULE Spec2Model ----
(***************************************************************************)
(* Model of the indexing and hybrid-retrieval pipeline:                    *)
(*   - full_text_search.py : the articles table, the FTS5 mirror,          *)
(*                           de-duplication and the MATCH query            *)
(*   - hybrid_search.py    : combine_results (fusion under a budget) and   *)
(*                           answer_query                                  *)
(*   - embedding_search.py : retrieve_context_from_pinecone                *)
(*   - data_ingestion.py   : clean_vector_id, main and the per-chunk       *)
(*                           embed/upsert loop                             *)
(* A Python str is a sequence of one-character strings.                    *)
(***************************************************************************)
EXTENDS Integers, Sequences, FiniteSets, TLC

(* ------------------------------ bounds --------------------------------- *)
\* longest list handed to combine_results (each of the two lists)
MaxItems == 2
\* largest max_token_limit tried on a direct call of combine_results
MaxTokenLimit == 34

\* most rows the scraper ever stores in the articles table
MaxArticles == 3
\* most rows one store_data_in_db call inserts
MaxBatch == 2
\* most rows the model lets the full-text index grow to
MaxFtsRows == 6
\* largest limit tried on search_articles_with_link
MaxLimit == 3
\* most matches the vector query returns in the model
MaxMatches == 2

\* most chunks one ingestion run is followed through
MaxDocs == 3
\* most ingestion runs
MaxRuns == 2

(* -------------------------- program constants -------------------------- *)
\* search_articles_with_link(..., limit: int = 3)
DefaultLimit == 3
\* combine_results(..., max_token_limit=7000)
DefaultMaxTokenLimit == 7000
\* retrieve_context_from_pinecone(..., num_results: int = 10)
DefaultNumResults == 10

(* ------------------------- Python str helpers -------------------------- *)
\* characters str.split() treats as separators (those the model uses)
Whitespace == {" ", "\n"}

Min(a, b) == IF a < b THEN a ELSE b

\* s[:n] for n >= 0
Slice(s, n) == SubSeq(s, 1, Min(n, Len(s)))

\* len(text.split()): the number of maximal runs of non-whitespace characters
calculate_token_count(text) ==
    Cardinality({p \in 1..Len(text) :
                    /\ text[p] \notin Whitespace
                    /\ (p = 1 \/ text[p - 1] \in Whitespace)})

\* the text.split() itself: the words of s, in order
RECURSIVE SplitFrom(_, _, _)
SplitFrom(s, p, word) ==
    IF p > Len(s)
    THEN (IF word = <<>> THEN <<>> ELSE <<word>>)
    ELSE IF s[p] \in Whitespace
         THEN (IF word = <<>> THEN <<>> ELSE <<word>>) \o SplitFrom(s, p + 1, <<>>)
         ELSE SplitFrom(s, p + 1, Append(word, s[p]))
Split(s) == SplitFrom(s, 1, <<>>)

\* " ".join(parts) and ", ".join(parts)
RECURSIVE Join(_, _)
Join(sep, parts) ==
    IF parts = <<>> THEN <<>>
    ELSE IF Len(parts) = 1 THEN parts[1]
    ELSE parts[1] \o sep \o Join(sep, Tail(parts))

\* repr() of a str made of letters, digits and blanks: the text in single quotes
StrRepr(s) == <<"'">> \o s \o <<"'">>

\* str() of a row tuple (title, synopsis, content, link)
TupleRepr(row) ==
    <<"(">> \o Join(<<",", " ">>, <<StrRepr(row.title), StrRepr(row.synopsis),
                                     StrRepr(row.content), StrRepr(row.link)>>)
            \o <<")">>

(* --------------------- hybrid_search.combine_results ------------------- *)
\* an element of fts_results: a str, or a row tuple as answer_query passes it
StrItem(text) == [kind |-> "str", text |-> text]
TupleItem(row) == [kind |-> "tuple", row |-> row]
\* an element of pinecone_chunks: a str, a dict (with or without
\* metadata.content), or anything else
DictItem(text) == [kind |-> "dict", text |-> text]
OtherItem == [kind |-> "other"]

\* f"{content}"
Format(item) == IF item.kind = "tuple" THEN TupleRepr(item.row) ELSE item.text

ContentTag == <<"\n", "C", "o", "n", "t", "e", "n", "t", ":", " ">>
ChunkTag == <<"\n", "C", "h", "u", "n", "k", ":", " ">>

\* the for loop over fts_results: append, then break when over the budget
RECURSIVE FtsLoop(_, _, _, _)
FtsLoop(fts, k, acc, limit) ==
    IF k > Len(fts) THEN acc
    ELSE LET next == acc \o ContentTag \o Format(fts[k]) \o <<"\n">>
         IN  IF calculate_token_count(next) > limit
             THEN next
             ELSE FtsLoop(fts, k + 1, next, limit)

\* the isinstance tests of the second loop
HasChunkContent(chunk) == chunk.kind \in {"str", "dict"}

\* the for loop over pinecone_chunks: skip what has no content, append,
\* then break when over the budget
RECURSIVE ChunkLoop(_, _, _, _)
ChunkLoop(chunks, k, acc, limit) ==
    IF k > Len(chunks) THEN acc
    ELSE IF ~HasChunkContent(chunks[k])
         THEN ChunkLoop(chunks, k + 1, acc, limit)
         ELSE LET next == acc \o ChunkTag \o chunks[k].text \o <<"\n">>
              IN  IF calculate_token_count(next) > limit
                  THEN next
                  ELSE ChunkLoop(chunks, k + 1, next, limit)

\* (mutant) the semantic chunks are appended before the lexical results
Accumulate_semantic_first(fts, chunks, limit) ==
    FtsLoop(fts, 1, ChunkLoop(chunks, 1, <<>>, limit), limit)

\* (mutant) combined_content starts as a header line and not as ""
Accumulate_from_header(fts, chunks, limit) ==
    ChunkLoop(chunks, 1, FtsLoop(fts, 1, ContentTag \o <<"\n">>, limit), limit)

\* combined_content when the second loop has ended
Accumulate(fts, chunks, limit) ==
    ChunkLoop(chunks, 1, FtsLoop(fts, 1, <<>>, limit), limit)

\* (mutant) the final slice is left out
combine_results_no_clamp(fts, chunks, limit) == Accumulate(fts, chunks, limit)

\* the value combine_results returns: combined_content[:max_token_limit]
combine_results(fts, chunks, limit) == Slice(Accumulate(fts, chunks, limit), limit)

(* ------------------ full_text_search.py: the SQL statements ------------ *)
\* the columns of articles_fts, which are also the GROUP BY and DISTINCT key
Row(t, s, c, l) == [title |-> t, synopsis |-> s, content |-> c, link |-> l]
RowOf(a) == Row(a.title, a.synopsis, a.content, a.link)

\* SELECT title, synopsis, content, link FROM articles: the rows by rowid
RECURSIVE SelectArticles(_)
SelectArticles(arts) ==
    IF arts = {} THEN <<>>
    ELSE LET first == CHOOSE a \in arts : \A b \in arts : a.id <= b.id
         IN  <<RowOf(first)>> \o SelectArticles(arts \ {first})

\* INSERT INTO articles_fts (...) SELECT ... FROM articles
MigrateRows(fts, arts) == fts \o SelectArticles(arts)

\* (mutant) the highest rowid of each group is kept
DeleteDuplicates_keep_last(arts) ==
    {a \in arts : \A b \in arts : RowOf(b) = RowOf(a) => b.id <= a.id}

\* DELETE FROM articles WHERE rowid NOT IN
\*   (SELECT MIN(rowid) FROM articles GROUP BY title, synopsis, content, link)
DeleteDuplicates(arts) ==
    {a \in arts : \A b \in arts : RowOf(b) = RowOf(a) => a.id <= b.id}

\* the characters of an FTS5 bareword (those the model uses)
BarewordChars == {"a", "b", "l", "s", "x", "y"}

\* an FTS5 query the parser accepts: barewords separated by blanks
WellFormed(q) ==
    /\ Split(q) # <<>>
    /\ \A p \in 1..Len(q) : q[p] \in BarewordChars \cup Whitespace

\* the unicode61 tokenizer: the tokens are the runs of letters and digits,
\* case-folded
Alphanumerics == {"a", "b", "l", "s", "x", "y", "A", "B", "0", "1", "2", "3", "4",
                  "5", "6", "7", "8", "9"}
Fold(c) == IF c = "A" THEN "a" ELSE IF c = "B" THEN "b" ELSE c

RECURSIVE TokensFrom(_, _, _)
TokensFrom(s, p, word) ==
    IF p > Len(s)
    THEN (IF word = <<>> THEN {} ELSE {word})
    ELSE IF s[p] \notin Alphanumerics
         THEN (IF word = <<>> THEN {} ELSE {word}) \cup TokensFrom(s, p + 1, <<>>)
         ELSE TokensFrom(s, p + 1, Append(word, Fold(s[p])))
Tokens(text) == TokensFrom(text, 1, <<>>)

\* articles_fts MATCH ?: every term of the query is a token of an indexed
\* column; link is UNINDEXED
Matches(row, q) ==
    Tokens(q) \subseteq Tokens(row.title) \cup Tokens(row.synopsis) \cup Tokens(row.content)

\* SELECT DISTINCT: each row once, at its first place
RECURSIVE Distinct(_)
Distinct(rows) ==
    IF rows = <<>> THEN <<>>
    ELSE LET front == Distinct(SubSeq(rows, 1, Len(rows) - 1))
             last == rows[Len(rows)]
         IN  IF \E p \in 1..Len(front) : front[p] = last
             THEN front
             ELSE Append(front, last)

RECURSIVE Where(_, _)
Where(rows, q) ==
    IF rows = <<>> THEN <<>>
    ELSE (IF Matches(rows[1], q) THEN <<rows[1]>> ELSE <<>>) \o Where(Tail(rows), q)

\* (mutant) the SELECT without DISTINCT
SelectMatching_all(fts, q, lim) == Slice(Where(fts, q), lim)

\* SELECT DISTINCT title, synopsis, content, link FROM articles_fts
\*   WHERE articles_fts MATCH ? LIMIT ?        (lim >= 0)
SelectMatching(fts, q, lim) == Slice(Distinct(Where(fts, q)), lim)

\* what can go wrong in one call: nothing, sqlite3.connect raising, or a
\* statement raising sqlite3.Error
Faults == {"none", "connect", "execute"}

\* (mutant) a storage error of the query is raised to the caller
SearchOutcome_raise(ftsThere, q, fault) ==
    IF fault = "none" /\ ftsThere /\ WellFormed(q) THEN "ok" ELSE "raised"

\* how search_articles_with_link ends: "ok" (the rows), "dberror" (the except
\* branch returns []), "raised" (connect failed, so conn is unbound in the
\* finally block and conn.close() raises)
SearchOutcome(ftsThere, q, fault) ==
    IF fault = "connect" THEN "raised"
    ELSE IF fault = "execute" \/ ~ftsThere \/ ~WellFormed(q) THEN "dberror"
    ELSE "ok"

\* the list search_articles_with_link returns (nothing when it raises)
SearchRows(ftsThere, fts, q, lim, fault) ==
    IF SearchOutcome(ftsThere, q, fault) = "ok" THEN SelectMatching(fts, q, lim) ELSE <<>>

(* ------------------------------- state --------------------------------- *)
(* ------------------------- data_ingestion.py --------------------------- *)
\* the characters the pattern [^a-zA-Z0-9_-] lets through (those of the model)
IdChars == {"a", "b", "l", "s", "x", "y", "A", "B", "0", "1", "2", "3", "4", "5",
            "6", "7", "8", "9", "_", "-"}

\* (mutant) the characters outside the class are removed
clean_vector_id_strip(text) == SelectSeq(text, LAMBDA c : c \in IdChars)

\* re.sub(r'[^a-zA-Z0-9_-]', '_', text)
clean_vector_id(text) ==
    [p \in 1..Len(text) |-> IF text[p] \in IdChars THEN text[p] ELSE "_"]

\* str(i) for an int i >= 0: its decimal digits
Digits == <<"0", "1", "2", "3", "4", "5", "6", "7", "8", "9">>
RECURSIVE IntToStr(_)
IntToStr(n) ==
    IF n < 10 THEN <<Digits[n + 1]>>
    ELSE Append(IntToStr(n \div 10), Digits[(n % 10) + 1])

\* SELECT title, synopsis, link, content FROM articles: the rows by rowid
RECURSIVE FetchArticles(_)
FetchArticles(arts) ==
    IF arts = {} THEN <<>>
    ELSE LET first == CHOOSE a \in arts : \A b \in arts : a.id <= b.id
         IN  <<[title |-> first.title, synopsis |-> first.synopsis,
                link |-> first.link, content |-> first.content]>>
                \o FetchArticles(arts \ {first})

\* splitter.split_text(content): the library's splitter, with a chunk size of
\* one word in the model; no chunk for an empty content
split_text(content) == Split(content)

\* split_articles_into_documents: one Document per chunk, the articles in
\* order and the chunks of each in order
RECURSIVE split_articles_into_documents(_)
split_articles_into_documents(arts) ==
    IF arts = <<>> THEN <<>>
    ELSE LET chunks == split_text(arts[1].content)
         IN  [c \in 1..Len(chunks) |->
                 [title |-> arts[1].title, description |-> arts[1].synopsis,
                  link |-> arts[1].link, page_content |-> chunks[c]]]
             \o split_articles_into_documents(Tail(arts))

\* index.upsert([(vector_id, vector, metadata)]): insert or overwrite by id
Upsert(st, id, doc) ==
    {r \in st : r.id # id} \cup
        {[id |-> id, title |-> doc.title, description |-> doc.description,
          link |-> doc.link, content |-> doc.page_content]}

\* the context chunks of the matches that carry metadata.content
RECURSIVE ContextChunks(_)
ContextChunks(matches) ==
    IF matches = <<>> THEN <<>>
    ELSE (IF matches[1].hasContent THEN <<matches[1].content>> ELSE <<>>)
            \o ContextChunks(Tail(matches))

\* retrieve_context_from_pinecone: " ".join(context_chunks), one str
retrieve_context_from_pinecone(matches) == Join(<<" ">>, ContextChunks(matches))

\* iterating a str gives its characters, each a str of length one
IterateStr(text) == [p \in 1..Len(text) |-> StrItem(<<text[p]>>)]

\* the for loop of answer_query: the rows themselves are appended
RowsAsItems(rows) == [p \in 1..Len(rows) |-> TupleItem(rows[p])]

VARIABLES
    \* manufacturing_articles.db
    articlesExists,     \* the table articles has been created
    articles,           \* its rows, each with its id (the rowid)
    nextId,             \* the AUTOINCREMENT sequence: the next id
    ftsExists,          \* the virtual table articles_fts has been created
    articles_fts,       \* its rows, in insertion order
    migrations,         \* history: how often the INSERT ... SELECT was committed
    sourceChanged,      \* history: articles changed after the first of them
    \* the last call
    lastOp,             \* the function that has just returned, "none" between scripts
    outcome,            \* "ok", "dberror" (caught and printed) or "raised"
    fault,              \* what went wrong in the database during the call
    semantic,           \* "ok", or "raised" when the vector query raised
    query,              \* the query of the last search
    limit,              \* its limit
    results,            \* the rows the last search returned
    matches,            \* results['matches'] of the last vector query
    \* the vector store and one run of data_ingestion.main
    indexExists,        \* the Pinecone index has been created
    store,              \* its records, one per id
    ipc,                \* where main is: "idle", "fetched", "chunked", "connected",
                        \* "indexing", "done", "terminated" (early return), "failed"
    fetched,            \* the list fetch_articles_from_db returned
    documents,          \* the list split_articles_into_documents returned
    i,                  \* the place in documents the loop is at, from 1
    embeds,             \* the get_embeddings calls of the run, in order
    upserts,            \* its index.upsert calls, in order
    runs,               \* how many runs have ended
    prevStatus,         \* history: how the run before ended,
    prevDocuments,      \*   its documents,
    prevIds,            \*   the vector_ids it issued upserts for,
    prevFaultFree,      \*   whether it skipped no chunk and no upsert failed,
    prevStoreIds,       \*   and the ids of the store it left
    \* one call of combine_results
    fpc,                \* "idle" before the call, "done" after the return
    fts_results,        \* its first argument
    pinecone_chunks,    \* its second argument
    max_token_limit,    \* its third argument
    combined_content,   \* the local combined_content when the loops have ended
    returned            \* the returned str

fuseVars == <<fpc, fts_results, pinecone_chunks, max_token_limit,
              combined_content, returned>>
dbVars == <<articlesExists, articles, nextId, ftsExists, articles_fts,
           migrations, sourceChanged>>
callVars == <<lastOp, outcome, fault, semantic, query, limit, results, matches>>
runVars == <<ipc, fetched, documents, i, embeds, upserts>>
ingestVars == <<indexExists, store, runVars, runs, prevStatus, prevDocuments,
               prevIds, prevFaultFree, prevStoreIds>>
vars == <<dbVars, callVars, fuseVars, ingestVars>>

\* (mutant) the ordinal is not reset between runs
VectorId_counting_on(docs, k) ==
    clean_vector_id(docs[k].title) \o <<"_">> \o IntToStr(k - 1 + runs * Len(docs))

\* (mutant) the ordinal counts the chunks of one title
VectorId_per_title(docs, k) ==
    clean_vector_id(docs[k].title) \o <<"_">>
        \o IntToStr(Cardinality({j \in 1..(k - 1) : docs[j].title = docs[k].title}))

\* (mutant) the ordinal counts from 1
VectorId_from_one(docs, k) == clean_vector_id(docs[k].title) \o <<"_">> \o IntToStr(k)

\* f"{title}_{i}" with title = clean_vector_id(doc.metadata['title']) and i
\* the place of doc in documents, from 0
VectorId(docs, k) == clean_vector_id(docs[k].title) \o <<"_">> \o IntToStr(k - 1)

\* (mutant) an exception of the model is not caught
get_embeddings_uncaught(emb) == emb

\* get_embeddings: the vector, or [] when the model raises
get_embeddings(emb) == IF emb = "raised" THEN "empty" ELSE emb

SeqsUpTo(S, n) == UNION {[1..k -> S] : k \in 0..n}

\* the lists a direct call of combine_results is tried on
FtsTexts == {<<"a">>, <<"a", " ", "b">>}
ChunkValues == {StrItem(<<"c">>), DictItem(<<"d", " ", "e">>), OtherItem}

InitFuse ==
    /\ fpc = "idle"
    /\ fts_results = <<>>
    /\ pinecone_chunks = <<>>
    /\ max_token_limit = 0
    /\ combined_content = <<>>
    /\ returned = <<>>

\* a call combine_results(fts, chunks, lim) run to its return
CallCombine(fts, chunks, lim) ==
    /\ fts_results' = fts
    /\ pinecone_chunks' = chunks
    /\ max_token_limit' = lim
    /\ combined_content' = Accumulate(fts, chunks, lim)
    /\ returned' = combine_results(fts, chunks, lim)
    /\ fpc' = "done"

CombineResultsCall ==
    /\ fpc = "idle"
    /\ \E fts \in SeqsUpTo({StrItem(t) : t \in FtsTexts}, MaxItems),
          chunks \in SeqsUpTo(ChunkValues, MaxItems),
          lim \in 0..MaxTokenLimit :
            CallCombine(fts, chunks, lim)

(* --------------------- the database and its queries -------------------- *)
InitDb ==
    /\ articlesExists = FALSE
    /\ articles = {}
    /\ nextId = 1
    /\ ftsExists = FALSE
    /\ articles_fts = <<>>
    /\ migrations = 0
    /\ sourceChanged = FALSE

InitCall ==
    /\ lastOp = "none"
    /\ outcome = "ok"
    /\ fault = "none"
    /\ semantic = "ok"
    /\ query = <<>>
    /\ limit = 0
    /\ results = <<>>
    /\ matches = <<>>

\* the rows the scraper stores and the queries tried on them
RowValues == {Row(<<"a", "-", "_">>, <<"s">>, <<"x">>, <<"l">>),
              Row(<<"B", "&", " ", "1">>, <<"s">>, <<"x", " ", "y">>, <<"l">>)}
Queries == {<<"x">>, <<"b", " ", "y">>, <<"l">>, <<"(">>}
\* the rows the scraper stores ahead of the ingestion runs: two titles that
\* clean_vector_id maps to one string, the second of them ending in "_1"
ScrapedRows == {Row(<<"B", "-", "&", "1">>, <<"s">>, <<"x">>, <<"l">>),
                Row(<<"B", "-", "_", "1">>, <<"s">>, <<"x", " ", "y">>, <<"l">>)}
\* rows for the runs that may find nothing to index: an article whose content
\* gives no chunk, and one that gives two
SparseRows == {Row(<<"a">>, <<"s">>, <<" ">>, <<"l">>),
               Row(<<"B", "-", "_", "1">>, <<"s">>, <<"x", " ", "y">>, <<"l">>)}
\* the query of the module-level search of full_text_search.py
ModuleQuery == <<"a", " ", "x">>
\* the matches index.query returns: with metadata.content, or without
MatchValues == {[hasContent |-> TRUE, content |-> <<"c", " ", "d">>],
                [hasContent |-> FALSE, content |-> <<>>]}

\* what a call that is not a call of combine_results leaves of the last one
NoFusion ==
    /\ fpc' = "idle"
    /\ fts_results' = <<>>
    /\ pinecone_chunks' = <<>>
    /\ max_token_limit' = 0
    /\ combined_content' = <<>>
    /\ returned' = <<>>

NoSearch ==
    /\ semantic' = "ok"
    /\ query' = <<>>
    /\ limit' = 0
    /\ results' = <<>>
    /\ matches' = <<>>

\* web_scraper.store_data_in_db: CREATE TABLE IF NOT EXISTS, then one INSERT
\* per scraped article, ids from the AUTOINCREMENT sequence
StoreData(values) ==
    \E data \in SeqsUpTo(values, MaxBatch) :
        /\ lastOp = "none"
        /\ data # <<>>
        /\ nextId - 1 + Len(data) <= MaxArticles
        /\ articlesExists' = TRUE
        /\ articles' = articles \cup
                {[id |-> nextId + p - 1, title |-> data[p].title,
                  synopsis |-> data[p].synopsis, link |-> data[p].link,
                  content |-> data[p].content] : p \in 1..Len(data)}
        /\ nextId' = nextId + Len(data)
        /\ sourceChanged' = (sourceChanged \/ migrations > 0)
        /\ lastOp' = "store_data_in_db"
        /\ outcome' = "ok"
        /\ fault' = "none"
        /\ NoSearch /\ NoFusion
        /\ UNCHANGED <<ftsExists, articles_fts, migrations>>

store_data_in_db == StoreData(RowValues)

\* the effect of create_fts_table_with_link on articles_fts and how it ends;
\* fault is "none", "connect", "create" (the CREATE raises) or "insert" (the
\* INSERT raises); the INSERT also raises when there is no table articles
CreateFtsOutcome(f) ==
    IF f = "connect" THEN "raised"
    ELSE IF f \in {"create", "insert"} \/ ~articlesExists THEN "dberror"
    ELSE "ok"

CreateFts(f) ==
    /\ Len(MigrateRows(articles_fts, articles)) <= MaxFtsRows
    /\ UNCHANGED sourceChanged
    /\ IF f \in {"connect", "create"}
       THEN UNCHANGED <<ftsExists, articles_fts, migrations>>
       ELSE IF CreateFtsOutcome(f) = "dberror"
       THEN ftsExists' = TRUE /\ UNCHANGED <<articles_fts, migrations>>
       ELSE /\ ftsExists' = TRUE
            /\ articles_fts' = MigrateRows(articles_fts, articles)
            /\ migrations' = migrations + 1

create_fts_table_with_link ==
    \E f \in {"none", "connect", "create", "insert"} :
        /\ lastOp = "none"
        /\ CreateFts(f)
        /\ fault' = f
        /\ outcome' = CreateFtsOutcome(f)
        /\ lastOp' = "create_fts_table_with_link"
        /\ NoSearch /\ NoFusion
        /\ UNCHANGED <<articlesExists, articles, nextId>>

remove_duplicates_from_articles ==
    \E f \in Faults :
        /\ lastOp = "none"
        /\ fault' = f
        /\ IF f = "connect"
           THEN outcome' = "raised" /\ UNCHANGED articles
           ELSE IF f = "execute" \/ ~articlesExists
           THEN outcome' = "dberror" /\ UNCHANGED articles
           ELSE outcome' = "ok" /\ articles' = DeleteDuplicates(articles)
        /\ sourceChanged' = (sourceChanged \/ (migrations > 0 /\ articles' # articles))
        /\ lastOp' = "remove_duplicates_from_articles"
        /\ NoSearch /\ NoFusion
        /\ UNCHANGED <<articlesExists, nextId, ftsExists, articles_fts, migrations>>

\* one call search_articles_with_link(db_path, q, lim) against the index
Search(ftsThere, fts, q, lim, f) ==
    /\ query' = q
    /\ limit' = lim
    /\ semantic' = "ok"
    /\ outcome' = SearchOutcome(ftsThere, q, f)
    /\ results' = SearchRows(ftsThere, fts, q, lim, f)
    /\ matches' = <<>>

search_articles_with_link ==
    \E q \in Queries, lim \in 0..MaxLimit, f \in Faults :
        /\ lastOp = "none"
        /\ fault' = f
        /\ Search(ftsExists, articles_fts, q, lim, f)
        /\ lastOp' = "search_articles_with_link"
        /\ NoFusion
        /\ UNCHANGED dbVars

\* loading the module full_text_search: the module-level call of
\* create_fts_table_with_link, then the module-level search
ImportFullTextSearch ==
    \E f \in {"none", "connect", "create", "insert"}, sfault \in Faults :
        /\ lastOp = "none"
        /\ CreateFts(f)
        /\ IF f = "connect"
           THEN fault' = f /\ outcome' = "raised" /\ NoSearch
           ELSE /\ fault' = sfault
                /\ Search(ftsExists', articles_fts', ModuleQuery, DefaultLimit, sfault)
        /\ lastOp' = "import full_text_search"
        /\ NoFusion
        /\ UNCHANGED <<articlesExists, articles, nextId>>

\* answer_query up to the fused context: the lexical search, the vector
\* query (matches is what index.query returns; it may raise), the fusion
answer_query ==
    \E q \in Queries, f \in Faults, sem \in {"ok", "raised"},
       found \in SeqsUpTo(MatchValues, MaxMatches) :
        /\ lastOp = "none"
        /\ Len(found) <= DefaultNumResults
        /\ lastOp' = "answer_query"
        /\ fault' = f
        /\ query' = q
        /\ limit' = DefaultLimit
        /\ results' = SearchRows(ftsExists, articles_fts, q, DefaultLimit, f)
        /\ IF SearchOutcome(ftsExists, q, f) = "raised"
           THEN semantic' = "ok" /\ outcome' = "raised" /\ matches' = <<>> /\ NoFusion
           ELSE IF sem = "raised"
           THEN semantic' = "raised" /\ outcome' = "raised" /\ matches' = <<>> /\ NoFusion
           ELSE /\ semantic' = "ok"
                /\ outcome' = SearchOutcome(ftsExists, q, f)
                /\ matches' = found
                /\ CallCombine(RowsAsItems(results'),
                               IterateStr(retrieve_context_from_pinecone(found)),
                               DefaultMaxTokenLimit)
        /\ UNCHANGED dbVars

\* the script that made the last call ends: its results are gone, the
\* database stays
Finish ==
    /\ lastOp \notin {"none", "main"}
    /\ lastOp' = "none"
    /\ outcome' = "ok"
    /\ fault' = "none"
    /\ NoSearch /\ NoFusion
    /\ UNCHANGED dbVars

(* ------------------------- the ingestion run --------------------------- *)
InitIngest ==
    /\ indexExists = FALSE
    /\ store = {}
    /\ ipc = "idle"
    /\ fetched = <<>>
    /\ documents = <<>>
    /\ i = 1
    /\ embeds = <<>>
    /\ upserts = <<>>
    /\ runs = 0
    /\ prevStatus = "none"
    /\ prevDocuments = <<>>
    /\ prevIds = {}
    /\ prevFaultFree = FALSE
    /\ prevStoreIds = {}

History == <<runs, prevStatus, prevDocuments, prevIds, prevFaultFree, prevStoreIds>>

\* the vector_ids of a list of upsert calls, and of the records of a store
IdsOf(calls) == {calls[k].id : k \in 1..Len(calls)}
StoreIds(st) == {r.id : r \in st}

\* the run embedded every chunk and every upsert went through
FaultFree(docs, embs, ups) ==
    /\ Len(embs) = Len(docs)
    /\ Len(ups) = Len(docs)
    /\ \A k \in 1..Len(ups) : ups[k].result = "ok"

\* main, step 1: fetch_articles_from_db. A failing connect leaves conn unbound
\* for the finally block, whose conn.close() raises out of main; any other
\* sqlite3.Error gives []
MainFetch ==
    \E f \in Faults :
        /\ lastOp = "none"
        /\ ipc = "idle"
        /\ runs < MaxRuns
        /\ lastOp' = "main"
        /\ fault' = f
        /\ outcome' = IF f = "connect" THEN "raised"
                      ELSE IF f = "execute" \/ ~articlesExists THEN "dberror"
                      ELSE "ok"
        /\ fetched' = IF outcome' = "ok" THEN FetchArticles(articles) ELSE <<>>
        /\ ipc' = IF f = "connect" THEN "failed" ELSE "fetched"
        /\ UNCHANGED <<documents, i, embeds, upserts, indexExists, store, History>>
        /\ UNCHANGED <<dbVars, semantic, query, limit, results, matches, fuseVars>>

\* main, step 2: return when nothing was fetched, else split
MainSplit ==
    /\ ipc = "fetched"
    /\ IF fetched = <<>>
       THEN ipc' = "terminated" /\ UNCHANGED documents
       ELSE /\ Len(split_articles_into_documents(fetched)) <= MaxDocs
            /\ documents' = split_articles_into_documents(fetched)
            /\ ipc' = "chunked"
    /\ UNCHANGED <<fetched, i, embeds, upserts, indexExists, store, History>>
    /\ UNCHANGED <<dbVars, callVars, fuseVars>>

\* (mutant) main goes on to initialize_pinecone with an empty list of documents
MainInitPinecone_no_return ==
    \E ok \in BOOLEAN :
        /\ ipc = "chunked"
        /\ IF ok
           THEN ipc' = "connected" /\ indexExists' = TRUE
           ELSE ipc' = "failed" /\ UNCHANGED indexExists
        /\ UNCHANGED <<fetched, documents, i, embeds, upserts, store, History>>
        /\ UNCHANGED <<dbVars, callVars, fuseVars>>

\* main, step 3: return when there is no document, else initialize_pinecone,
\* which creates the index when it is not listed; a failure of the service
\* raises out of main
MainInitPinecone ==
    \E ok \in BOOLEAN :
        /\ ipc = "chunked"
        /\ IF documents = <<>>
           THEN ipc' = "terminated" /\ UNCHANGED indexExists
           ELSE IF ok
           THEN ipc' = "connected" /\ indexExists' = TRUE
           ELSE ipc' = "failed" /\ UNCHANGED indexExists
        /\ UNCHANGED <<fetched, documents, i, embeds, upserts, store, History>>
        /\ UNCHANGED <<dbVars, callVars, fuseVars>>

\* main, step 4: SentenceTransformer(embedding_model_name), which may raise
MainLoadModel ==
    \E ok \in BOOLEAN :
        /\ ipc = "connected"
        /\ ipc' = IF ok THEN "indexing" ELSE "failed"
        /\ i' = 1
        /\ UNCHANGED <<fetched, documents, embeds, upserts, indexExists, store, History>>
        /\ UNCHANGED <<dbVars, callVars, fuseVars>>

\* index_documents_to_pinecone, one turn of the loop: emb is what the model
\* does with the chunk ("vector", "empty" or "raised"), up what the upsert
\* does ("ok", or it raises, the record written or not)
IndexStep ==
    \E emb \in {"vector", "empty", "raised"},
       up \in {"ok", "raised_written", "raised_unwritten"} :
        /\ ipc = "indexing"
        /\ i <= Len(documents)
        /\ (emb # "vector" => up = "ok")
        /\ LET vector == get_embeddings(emb)
               vector_id == VectorId(documents, i)
           IN  /\ embeds' = Append(embeds, [k |-> i, result |-> emb])
               /\ IF vector = "raised"
                  THEN ipc' = "failed" /\ UNCHANGED <<i, upserts, store>>
                  ELSE IF vector = "vector"
                  THEN /\ upserts' = Append(upserts, [k |-> i, id |-> vector_id,
                                                      result |-> up])
                       /\ store' = IF up = "raised_unwritten" THEN store
                                   ELSE Upsert(store, vector_id, documents[i])
                       /\ i' = i + 1
                       /\ UNCHANGED ipc
                  ELSE /\ i' = i + 1
                       /\ UNCHANGED <<ipc, upserts, store>>
        /\ UNCHANGED <<fetched, documents, indexExists, History>>
        /\ UNCHANGED <<dbVars, callVars, fuseVars>>

\* main, after the loop: the closing print
MainDone ==
    /\ ipc = "indexing"
    /\ i > Len(documents)
    /\ ipc' = "done"
    /\ UNCHANGED <<fetched, documents, i, embeds, upserts, indexExists, store, History>>
    /\ UNCHANGED <<dbVars, callVars, fuseVars>>

\* the ingestion script ends; what the run did is kept as history
FinishMain ==
    /\ lastOp = "main"
    /\ ipc \in {"done", "terminated", "failed"}
    /\ runs' = runs + 1
    /\ prevStatus' = ipc
    /\ prevDocuments' = documents
    /\ prevIds' = IdsOf(upserts)
    /\ prevFaultFree' = FaultFree(documents, embeds, upserts)
    /\ prevStoreIds' = StoreIds(store)
    /\ ipc' = "idle"
    /\ fetched' = <<>>
    /\ documents' = <<>>
    /\ i' = 1
    /\ embeds' = <<>>
    /\ upserts' = <<>>
    /\ lastOp' = "none"
    /\ outcome' = "ok"
    /\ fault' = "none"
    /\ UNCHANGED <<indexExists, store>>
    /\ UNCHANGED <<dbVars, semantic, query, limit, results, matches, fuseVars>>

Init == InitDb /\ InitCall /\ InitFuse /\ InitIngest

NextFuse == CombineResultsCall /\ UNCHANGED <<dbVars, callVars, ingestVars>>

\* the scraper fills the table once, before the first ingestion run; the runs
\* then read one and the same table
NextIngestOf(values) ==
    \/ (runs = 0 /\ nextId = 1 /\ StoreData(values) /\ UNCHANGED ingestVars)
    \/ (Finish /\ UNCHANGED ingestVars)
    \/ MainFetch
    \/ MainSplit
    \/ MainInitPinecone
    \/ MainLoadModel
    \/ IndexStep
    \/ MainDone
    \/ FinishMain

NextIngest == NextIngestOf(ScrapedRows)
NextIngestSparse == NextIngestOf(SparseRows)

NextFts ==
    /\ \/ store_data_in_db
       \/ create_fts_table_with_link
       \/ remove_duplicates_from_articles
       \/ search_articles_with_link
       \/ ImportFullTextSearch
       \/ answer_query
       \/ Finish
    /\ UNCHANGED ingestVars

\* the scripts of the pipeline as they can follow each other: the scraper,
\* the ingestion runs, and the maintenance of the lexical index, which only
\* full_text_search.py does and no step of main calls
NextPipeline ==
    \/ NextIngest
    \/ (create_fts_table_with_link /\ UNCHANGED ingestVars)
    \/ (remove_duplicates_from_articles /\ UNCHANGED ingestVars)

Next == NextFuse \/ NextFts \/ NextIngest \/ NextIngestSparse \/ NextPipeline

SpecFts == Init /\ [][NextFts]_vars
SpecIngest == Init /\ [][NextIngest]_vars
SpecIngestSparse == Init /\ [][NextIngestSparse]_vars
SpecPipeline == Init /\ [][NextPipeline]_vars

SpecFuse == Init /\ [][NextFuse]_vars
Spec == Init /\ [][Next]_vars

(* ----------------------- properties of the fusion ---------------------- *)
\* the positions of text at which tag starts
TagPositions(text, tag) ==
    {p \in 1..Len(text) :
        /\ p + Len(tag) - 1 <= Len(text)
        /\ SubSeq(text, p, p + Len(tag) - 1) = tag}

IsPrefix(s, t) == Len(s) <= Len(t) /\ SubSeq(t, 1, Len(s)) = s

\* the first k lexical results, each tagged, one after the other
RECURSIVE TaggedLexical(_, _)
TaggedLexical(fts, k) ==
    IF k = 0 THEN <<>>
    ELSE TaggedLexical(fts, k - 1) \o ContentTag \o Format(fts[k]) \o <<"\n">>

\* every "Content:" tag of text starts before every "Chunk:" tag
LexicalFirst(text) ==
    \A p \in TagPositions(text, ContentTag), q \in TagPositions(text, ChunkTag) : p < q

\* the lengths of the prefixes of text that end where an appended item ends
ItemEnds(text) ==
    {p \in 1..Len(text) :
        \/ p = Len(text)
        \/ p + 1 \in TagPositions(text, ContentTag) \cup TagPositions(text, ChunkTag)}

\* C1 (budget bound): the str combine_results returns has at most
\* max_token_limit whitespace-delimited words and at most max_token_limit
\* characters, for every max_token_limit >= 0.
C1_BudgetBound ==
    fpc = "done" =>
        /\ calculate_token_count(returned) <= max_token_limit
        /\ Len(returned) <= max_token_limit

\* a call whose accumulated text is over the budget in words and in characters
C1_Witness ==
    /\ fpc = "done"
    /\ max_token_limit > 0
    /\ calculate_token_count(combined_content) > max_token_limit
    /\ Len(returned) = max_token_limit
    /\ calculate_token_count(returned) >= 1

\* C2 (lexical-first ordering): with both lists non-empty, every "Content:"
\* item of the fused text comes before every "Chunk:" item, in the accumulated
\* text and in the returned one, and the lexical items are the first results
\* of the lexical list in the order of that list.
C2_LexicalFirst ==
    (/\ fpc = "done"
     /\ fts_results # <<>>
     /\ pinecone_chunks # <<>>) =>
        LET k == Cardinality(TagPositions(combined_content, ContentTag))
        IN  /\ LexicalFirst(combined_content)
            /\ LexicalFirst(returned)
            /\ IsPrefix(returned, combined_content)
            /\ k \in 1..Len(fts_results)
            /\ IsPrefix(TaggedLexical(fts_results, k), combined_content)

\* both kinds of item are in the returned text and the final slice cut it
C2_Witness ==
    /\ fpc = "done"
    /\ Len(fts_results) > 1
    /\ pinecone_chunks # <<>>
    /\ Len(combined_content) > max_token_limit
    /\ Cardinality(TagPositions(returned, ContentTag)) > 1
    /\ TagPositions(returned, ChunkTag) # {}

\* C3 (budget gating across phases), as claimed: once the word count of the
\* accumulated text exceeds max_token_limit after an item was appended, no
\* further item is appended, neither from the same list nor from the next one.
C3_BudgetGating ==
    fpc = "done" =>
        \A p \in ItemEnds(combined_content) :
            calculate_token_count(Slice(combined_content, p)) > max_token_limit
                => p = Len(combined_content)

(* ------------------ properties of the full-text module ----------------- *)
\* how often the row value v is in the sequence rows
Occurrences(rows, v) == Cardinality({p \in 1..Len(rows) : rows[p] = v})

NoRepeats(rows) == \A p, r \in 1..Len(rows) : rows[p] = rows[r] => p = r

\* C6 (maintain_index is safe to call repeatedly), as claimed: after one or
\* more committed calls of create_fts_table_with_link on an unchanged articles
\* table, the index has exactly one row per article row.
C6_OneIndexRowPerArticle ==
    (migrations >= 1 /\ ~sourceChanged) =>
        \A v \in RowValues :
            Occurrences(articles_fts, v) = Cardinality({a \in articles : RowOf(a) = v})

\* C7 (deduplicate keeps the earliest row of each group): a committed
\* remove_duplicates_from_articles leaves, for every (title, synopsis,
\* content, link) value of the table, exactly one row, the one with the lowest
\* id; it deletes no row that had no duplicate, and on a table without
\* duplicates (as after a first call) it deletes nothing.
C7_DedupKeepsEarliest ==
    [][(lastOp' = "remove_duplicates_from_articles" /\ outcome' = "ok") =>
        /\ articles' \subseteq articles
        /\ \A a \in articles :
            LET group == {b \in articles : RowOf(b) = RowOf(a)}
                kept == {b \in articles' : RowOf(b) = RowOf(a)}
            IN  /\ Cardinality(kept) = 1
                /\ \A b \in kept : \A c \in group : b.id <= c.id
                /\ (group = {a} => a \in articles')
        /\ \A a, b \in articles' : RowOf(a) = RowOf(b) => a = b
        /\ ((\A a, b \in articles : RowOf(a) = RowOf(b) => a = b)
                => articles' = articles)
      ]_vars

\* a call that deleted the later row of a group and kept two groups
C7_Witness ==
    /\ lastOp = "remove_duplicates_from_articles"
    /\ outcome = "ok"
    /\ Cardinality(articles) = 2
    /\ nextId = 4
    /\ \E a \in articles : a.id = 1
    /\ \A a, b \in articles : RowOf(a) = RowOf(b) => a = b

QueryError == fault # "connect" /\ (fault = "execute" \/ ~ftsExists \/ ~WellFormed(query))

DerivedIds(docs) == {VectorId(docs, k) : k \in 1..Len(docs)}

\* a completed run that follows a completed run over the same documents
SecondRunDone ==
    /\ ipc = "done"
    /\ prevStatus = "done"
    /\ documents = prevDocuments

\* C4 (ID stability / idempotent re-indexing), as claimed: two runs over the
\* same input issue upserts for the same set of vector_ids and leave the same
\* number of distinct ids in the store, also when the first run skipped chunks
\* or had failing upserts.
C4_SameIdsBothRuns ==
    SecondRunDone =>
        /\ IdsOf(upserts) = prevIds
        /\ Cardinality(StoreIds(store)) = Cardinality(prevStoreIds)

\* C4 as amended: both runs derive the same vector_id for each chunk, so the
\* upserts of either go to ids of one set with one id per chunk, the second
\* run overwrites (one record per id, no id lost, none added but those it
\* issued), and two runs without skip or failure issue the same set of ids and
\* leave the number of distinct ids unchanged.
C4_StableIds ==
    SecondRunDone =>
        /\ \A k \in 1..Len(upserts) : upserts[k].id = VectorId(prevDocuments, upserts[k].k)
        /\ IdsOf(upserts) \subseteq DerivedIds(documents)
        /\ prevIds \subseteq DerivedIds(documents)
        /\ Cardinality(DerivedIds(documents)) = Len(documents)
        /\ \A r, q \in store : r.id = q.id => r = q
        /\ prevStoreIds \subseteq StoreIds(store)
        /\ StoreIds(store) \subseteq prevStoreIds \cup IdsOf(upserts)
        /\ (prevFaultFree /\ FaultFree(documents, embeds, upserts)) =>
                /\ IdsOf(upserts) = prevIds
                /\ StoreIds(store) = prevStoreIds
                /\ Cardinality(StoreIds(store)) = Len(documents)

\* a second fault-free run over three chunks of two articles that overwrote
\* what the first fault-free run stored
C4_Witness ==
    /\ SecondRunDone
    /\ prevFaultFree
    /\ FaultFree(documents, embeds, upserts)
    /\ Len(documents) = 3
    /\ documents[1].title # documents[3].title

C10_FaultIsolation ==
    /\ (ipc = "failed" => embeds = <<>>)
    /\ ipc \in {"indexing", "done"} =>
        /\ Len(embeds) = i - 1
        /\ \A e \in 1..Len(embeds) : embeds[e].k = e
        /\ \A u \in 1..Len(upserts) : embeds[upserts[u].k].result = "vector"
        /\ \A e \in 1..Len(embeds) :
                Cardinality({u \in 1..Len(upserts) : upserts[u].k = e})
                    = (IF embeds[e].result = "vector" THEN 1 ELSE 0)
    /\ (ipc = "done" => Len(embeds) = Len(documents))

\* a completed run whose first chunk failed to embed, whose second chunk got
\* an empty vector or a failing upsert, and whose last chunk was upserted
C10_Witness ==
    /\ ipc = "done"
    /\ Len(documents) = 3
    /\ embeds[1].result = "raised"
    /\ \/ embeds[2].result = "empty"
       \/ \E u \in 1..Len(upserts) : upserts[u].k = 2 /\ upserts[u].result # "ok"
    /\ \E u \in 1..Len(upserts) : upserts[u].k = 3 /\ upserts[u].result = "ok"

(* ------------------- properties of the pipeline's order ---------------- *)
\* every article row has its row in the lexical index
IndexPopulated ==
    /\ ftsExists
    /\ migrations > 0
    /\ \A a \in articles :
         \E p \in 1..Len(articles_fts) : articles_fts[p] = RowOf(a)

\* C11: an ingestion run that has reached EMBED_AND_UPSERT or DONE has the
\* lexical index's deduplication and (re)population behind it: when the first
\* chunk is embedded the table articles holds no duplicate row and every row
\* of it is in articles_fts
C11_IndexMaintainedBeforeEmbed ==
    (lastOp = "main" /\ ipc \in {"indexing", "done"} /\ embeds # <<>>)
        => (IndexPopulated /\ articles = DeleteDuplicates(articles))

(* ------------------------ early termination ---------------------------- *)
\* C12 (early termination is a no-op): a run whose fetch gave no article, or
\* whose split gave no chunk, returns from main at once; the step that ends it
\* leaves the vector index and its records as they were and issues no embed
\* and no upsert call, and the script then ends as a run that terminated,
\* not as one that failed; so the stages that open the index, load the model
\* and embed are reached only with articles and chunks at hand.
C12_EarlyTerminationNoOp ==
    [][ /\ (lastOp = "main" /\ ipc = "fetched" /\ fetched = <<>>)
            => (ipc' = "terminated" /\ UNCHANGED <<indexExists, store, embeds, upserts>>)
        /\ (lastOp = "main" /\ ipc = "chunked" /\ documents = <<>>)
            => (ipc' = "terminated" /\ UNCHANGED <<indexExists, store, embeds, upserts>>)
        /\ ipc = "terminated"
            => /\ embeds = <<>> /\ upserts = <<>>
               /\ (fetched = <<>> \/ documents = <<>>)
               /\ ipc' = "idle" /\ prevStatus' = "terminated" /\ runs' = runs + 1
               /\ UNCHANGED <<indexExists, store>>
        /\ ipc' \in {"connected", "indexing", "done"}
            => (fetched' # <<>> /\ documents' # <<>>)
        /\ (runs' = 1 /\ prevStatus' = "terminated" /\ ipc' = "idle")
            => (~indexExists' /\ store' = {})
      ]_vars

\* a first run has returned early on articles that gave no chunk, the vector
\* index not created
C12_Witness ==
    /\ ipc = "terminated"
    /\ runs = 0
    /\ fetched # <<>>
    /\ documents = <<>>
    /\ ~indexExists
    /\ store = {}

(* --------------------------- empty retrieval --------------------------- *)
\* C13 (empty retrieval is a valid outcome): a call of combine_results with
\* no lexical row and no semantic chunk returns, and what it returns is the
\* empty str, of token count 0, whatever max_token_limit is.
C13_EmptyRetrieval ==
    (fpc = "done" /\ fts_results = <<>> /\ pinecone_chunks = <<>>) =>
        /\ combined_content = <<>>
        /\ returned = <<>>
        /\ calculate_token_count(returned) = 0

\* the call with two empty lists and a budget that would admit text
C13_Witness ==
    /\ fpc = "done"
    /\ fts_results = <<>>
    /\ pinecone_chunks = <<>>
    /\ max_token_limit > 0

(* ---------------------- the ordinal of a vector_id --------------------- *)
\* for each document of split_articles_into_documents(arts), in order: the
\* article it is a chunk of (counted from a) and its sequence number within
\* that article, from 0
RECURSIVE PlacesFrom(_, _)
PlacesFrom(arts, a) ==
    IF arts = <<>> THEN <<>>
    ELSE [c \in 1..Len(split_text(arts[1].content)) |->
             [article |-> a, ordinal |-> c - 1]]
         \o PlacesFrom(Tail(arts), a + 1)

Places(arts) == PlacesFrom(arts, 1)

\* how many chunks the articles before the article of document k gave
ChunksBefore(places, k) ==
    Cardinality({j \in 1..Len(places) : places[j].article < places[k].article})

\* C14 (per-article ordinal), as claimed: the ordinal of a vector_id is the
\* chunk's sequence number within its own article, 0, 1, 2, ... restarting
\* for each article.
C14_PerArticleOrdinal ==
    \A u \in 1..Len(upserts) :
        upserts[u].id = clean_vector_id(documents[upserts[u].k].title) \o <<"_">>
                            \o IntToStr(Places(fetched)[upserts[u].k].ordinal)

\* C14 as amended: the ordinal is the chunk's place in the whole batch, from
\* 0, that is its sequence number within its article plus the number of
\* chunks of all the articles fetched before it; it restarts for no article,
\* so only the chunks of the first article that gave chunks carry their
\* sequence number within the article.
C14_BatchOrdinal ==
    LET places == Places(fetched)
    IN  \A u \in 1..Len(upserts) :
            LET k == upserts[u].k
            IN  /\ Len(places) = Len(documents)
                /\ upserts[u].id =
                        clean_vector_id(documents[k].title) \o <<"_">>
                            \o IntToStr(places[k].ordinal + ChunksBefore(places, k))
                /\ (upserts[u].id = clean_vector_id(documents[k].title) \o <<"_">>
                                        \o IntToStr(places[k].ordinal))
                        <=> ChunksBefore(places, k) = 0

\* the first chunk of a second article was upserted behind two chunks of the
\* first article
C14_Witness ==
    \E u \in 1..Len(upserts) :
        LET place == Places(fetched)[upserts[u].k]
        IN  /\ place.article = 2
            /\ place.ordinal = 0
            /\ upserts[u].k = 3

(* ------------------------ distinct keys in a run ----------------------- *)
\* the record an upsert call of the run wrote, when it wrote one
Written(call) ==
    [id |-> call.id, title |-> documents[call.k].title,
     description |-> documents[call.k].description,
     link |-> documents[call.k].link,
     content |-> documents[call.k].page_content]

\* C15 (distinct keys within a run): any two different chunks of the batch
\* have different vector_ids, whatever their titles, so the upserts of a run
\* go to pairwise different ids and none overwrites another of the same run:
\* every record a call of the run wrote is still in the store.
C15_DistinctKeys ==
    (lastOp = "main" /\ ipc \in {"indexing", "done"}) =>
        /\ \A k \in 2..Len(documents) : \A j \in 1..(k - 1) :
                VectorId(documents, j) # VectorId(documents, k)
        /\ \A v \in 2..Len(upserts) : \A u \in 1..(v - 1) :
                upserts[u].id # upserts[v].id
        /\ \A u \in 1..Len(upserts) :
                upserts[u].result # "raised_unwritten" => Written(upserts[u]) \in store

\* a completed run wrote three chunks, among them chunks of two articles
\* whose different titles clean_vector_id maps to one string, one of the
\* titles ending in "_1"
C15_Witness ==
    /\ ipc = "done"
    /\ Len(upserts) = 3
    /\ \A u \in 1..3 : upserts[u].result = "ok"
    /\ \E j, k \in 1..3 :
            /\ documents[j].title # documents[k].title
            /\ clean_vector_id(documents[j].title) = clean_vector_id(documents[k].title)
            /\ SubSeq(documents[k].title, Len(documents[k].title) - 1,
                      Len(documents[k].title)) = <<"_", "1">>

(* ------------------- the items of an end-to-end retrieval -------------- *)
\* the first k chunk texts, each tagged, one after the other
RECURSIVE TaggedChunks(_, _)
TaggedChunks(texts, k) ==
    IF k = 0 THEN <<>>
    ELSE TaggedChunks(texts, k - 1) \o ChunkTag \o texts[k] \o <<"\n">>

\* the lexical half of C16: one "Content:" item for each row the search
\* returned, in the order returned, at most limit of them
LexicalItems ==
    /\ Len(fts_results) = Len(results)
    /\ Len(results) <= limit
    /\ Cardinality(TagPositions(combined_content, ContentTag)) = Len(results)
    /\ IsPrefix(TaggedLexical(RowsAsItems(results), Len(results)), combined_content)

\* C16 (one tagged item per retrieved unit), as claimed: in answer_query each
\* lexical row gives exactly one "Content:" item and each match of the vector
\* query that carries a chunk text gives exactly one "Chunk:" item with that
\* text, in the order returned, so that the fused text has at most limit
\* lexical and at most top-k semantic items.
C16_OneItemPerUnit ==
    (lastOp = "answer_query" /\ fpc = "done") =>
        LET texts == ContextChunks(matches)
        IN  /\ LexicalItems
            /\ Cardinality(TagPositions(combined_content, ChunkTag)) = Len(texts)
            /\ Len(texts) <= DefaultNumResults
            /\ combined_content =
                    TaggedLexical(RowsAsItems(results), Len(results))
                        \o TaggedChunks(texts, Len(texts))

====
